---- MODULE Spec2Model ----
(***************************************************************************)
(* Model of the AES256GCM envelope class of src/AES256GCM.ts.              *)
(*                                                                         *)
(* Buffers are sequences of bytes (0..255), JavaScript strings are         *)
(* sequences of UTF-16 code units.  Every method is an operator that       *)
(* returns a result record: the error it throws ("none" when it returns),  *)
(* the values it returns, and the calls it made to the crypto module, in   *)
(* order.  The state machine below calls the methods the way a caller of   *)
(* the class can: with fresh arguments, or with an envelope it holds from  *)
(* an earlier encryption, unchanged or altered.                            *)
(***************************************************************************)
EXTENDS Integers, Sequences, FiniteSets, TLC

\* ------------------------------------------------------------------ fields

keyLength == 32
ivLength == 6
authTagLength == 16

\* ------------------------------------------------------------------ bounds

\* longest plaintext, in bytes or characters
MaxLen == 2
\* how many bytes a caller cuts off or adds when it alters a tag
MaxTagDelta == 1

\* ------------------------------------------------------------------ errors

\* the three errors the class throws itself, by their messages
KeyLengthError == "Key must be 32 bytes (256 bits)"
IvLengthError == "IV must be exactly 6 characters"
DecryptionFailedError == "Decryption failed: Authentication failed or data corrupted"
\* the errors of the crypto module that the class lets through
ERR_CRYPTO_INVALID_IV == "Invalid initialization vector"
ERR_CRYPTO_INVALID_AUTH_TAG == "Invalid authentication tag length"
NoError == "none"

\* ------------------------------------------------------------------ bytes

Min(a, b) == IF a < b THEN a ELSE b

RECURSIVE XorBits(_, _, _)
XorBits(a, b, n) ==
  IF n = 0 THEN 0
  ELSE (((a % 2) + (b % 2)) % 2) + 2 * XorBits(a \div 2, b \div 2, n - 1)

XorByte(a, b) == XorBits(a, b, 8)

\* position-weighted digest of a byte sequence, a byte
RECURSIVE Digest(_)
Digest(s) ==
  IF s = <<>> THEN 0 ELSE (Len(s) * (Head(s) + 1) + Digest(Tail(s))) % 256

\* Buffer.subarray(start, end), 0-based, end exclusive, both clamped
subarray(buf, start, end) ==
  SubSeq(buf, Min(start, Len(buf)) + 1, Min(end, Len(buf)))

\* String.slice(0, n)
slice(s, n) == SubSeq(s, 1, Min(n, Len(s)))

\* Buffer.from(string, "utf8"), for code units outside the surrogate range
Utf8Unit(c) ==
  IF c < 128 THEN <<c>>
  ELSE IF c < 2048 THEN <<192 + (c \div 64), 128 + (c % 64)>>
  ELSE <<224 + (c \div 4096), 128 + ((c \div 64) % 64), 128 + (c % 64)>>

RECURSIVE BufferFromUtf8(_)
BufferFromUtf8(s) ==
  IF s = <<>> THEN <<>> ELSE Utf8Unit(Head(s)) \o BufferFromUtf8(Tail(s))

\* Buffer.toString("hex")
HexDigit(n) == IF n < 10 THEN 48 + n ELSE 87 + n

RECURSIVE toHex(_)
toHex(buf) ==
  IF buf = <<>> THEN <<>>
  ELSE <<HexDigit(Head(buf) \div 16), HexDigit(Head(buf) % 16)>> \o toHex(Tail(buf))

\* ------------------------------------------------------------------ base64

PadChar == 61

\* the character of a 6-bit value in the standard alphabet
Base64Char(v) ==
  IF v < 26 THEN 65 + v
  ELSE IF v < 52 THEN 71 + v
  ELSE IF v < 62 THEN v - 4
  ELSE IF v = 62 THEN 43 ELSE 47

\* the 6-bit value of a character, 64 for a character the decoder skips;
\* the decoder also takes the URL-safe '-' and '_'
unbase64(c) ==
  IF c >= 65 /\ c <= 90 THEN c - 65
  ELSE IF c >= 97 /\ c <= 122 THEN c - 71
  ELSE IF c >= 48 /\ c <= 57 THEN c + 4
  ELSE IF c = 43 \/ c = 45 THEN 62
  ELSE IF c = 47 \/ c = 95 THEN 63
  ELSE 64

\* Buffer.toString("base64"): standard alphabet, padded
RECURSIVE toBase64(_)
toBase64(buf) ==
  IF buf = <<>> THEN <<>>
  ELSE IF Len(buf) = 1 THEN
    <<Base64Char(buf[1] \div 4), Base64Char((buf[1] % 4) * 16), PadChar, PadChar>>
  ELSE IF Len(buf) = 2 THEN
    <<Base64Char(buf[1] \div 4),
      Base64Char((buf[1] % 4) * 16 + (buf[2] \div 16)),
      Base64Char((buf[2] % 16) * 4), PadChar>>
  ELSE
    <<Base64Char(buf[1] \div 4),
      Base64Char((buf[1] % 4) * 16 + (buf[2] \div 16)),
      Base64Char((buf[2] % 16) * 4 + (buf[3] \div 64)),
      Base64Char(buf[3] % 64)>> \o toBase64(SubSeq(buf, 4, Len(buf)))

\* the 6-bit values the decoder reads: it skips every character outside the
\* alphabet and stops at the first '='
RECURSIVE Sextets(_)
Sextets(text) ==
  IF text = <<>> \/ Head(text) = PadChar THEN <<>>
  ELSE IF unbase64(Head(text)) = 64 THEN Sextets(Tail(text))
  ELSE <<unbase64(Head(text))>> \o Sextets(Tail(text))

RECURSIVE SextetsToBytes(_)
SextetsToBytes(v) ==
  IF Len(v) < 2 THEN <<>>
  ELSE IF Len(v) = 2 THEN <<v[1] * 4 + (v[2] \div 16)>>
  ELSE IF Len(v) = 3 THEN
    <<v[1] * 4 + (v[2] \div 16), (v[2] % 16) * 16 + (v[3] \div 4)>>
  ELSE
    <<v[1] * 4 + (v[2] \div 16), (v[2] % 16) * 16 + (v[3] \div 4),
      (v[3] % 4) * 64 + v[4]>> \o SextetsToBytes(SubSeq(v, 5, Len(v)))

\* Buffer.from(string, "base64"): never throws
BufferFromBase64(text) == SextetsToBytes(Sextets(text))

\* what a strict decoder takes: alphabet only, length a multiple of 4, at most
\* two '=' and only at the end
IsValidBase64(text) ==
  /\ Len(text) % 4 = 0
  /\ \A i \in 1..Len(text) :
       \/ unbase64(text[i]) < 64 /\ text[i] \notin {45, 95}
       \/ /\ text[i] = PadChar
          /\ i >= Len(text) - 1
          /\ \A j \in i..Len(text) : text[j] = PadChar

\* ------------------------------------------------------------------ crypto module

\* what a method hands back: the error thrown (NoError when it returns), the
\* value returned, the fields of encrypt's result, the blob built on the way,
\* the calls made to the crypto module and the IV handed to it
NoResult ==
  [err |-> NoError, val |-> <<>>, encrypted |-> <<>>, iv |-> <<>>,
   authTag |-> <<>>, blob |-> <<>>, calls |-> <<>>, aeadIv |-> <<>>]

Throw(e, calls, aeadIv) ==
  [NoResult EXCEPT !.err = e, !.calls = calls, !.aeadIv = aeadIv]

\* createCipheriv / createDecipheriv in GCM mode take an IV of any length but
\* zero
IvAccepted(iv) == Len(iv) > 0

\* setAuthTag takes the tag lengths GCM allows
TagLengthAccepted(n) == n = 4 \/ n = 8 \/ (n >= 12 /\ n <= 16)

\* AES-256 in counter mode: the data XORed with a key stream fixed by key and
\* IV, so the output is as long as the input and applying it twice undoes it
KeystreamByte(key, iv, i) == (Digest(key) + Digest(iv) + 17 * i + 1) % 256

GcmCrypt(key, iv, data) ==
  [i \in 1..Len(data) |-> XorByte(data[i], KeystreamByte(key, iv, i))]

\* the 128-bit tag over key, IV and ciphertext.  GHASH is taken as an ideal
\* MAC: different (key, IV, ciphertext) give different tags, for IV and
\* ciphertext of 13 bytes together at most
GcmTag(key, iv, ct) ==
  LET raw == <<Digest(key), Len(iv), Len(ct)>> \o iv \o ct
  IN [i \in 1..authTagLength |->
        IF i <= Len(raw) THEN XorByte(raw[i], (37 * i) % 256) ELSE (37 * i) % 256]

\* decipher.final(): the tag set is compared, over its own length, with the
\* tag of what was deciphered
TagVerifies(key, iv, ct, authTag) ==
  authTag = SubSeq(GcmTag(key, iv, ct), 1, Len(authTag))

\* ------------------------------------------------------------------ AES256GCM

\* a JavaScript value used as a condition: undefined and "" are falsy
Truthy(fixedIv) == fixedIv.given /\ fixedIv.s # <<>>

\* generateKey: rnd is what randomBytes(32) returns
generateKey(rnd) == [NoResult EXCEPT !.val = rnd, !.calls = <<"randomBytes">>]

\* generateRandomString without its slice(0, ivLength): all 12 hex characters
generateRandomString_unsliced(rnd) == toHex(rnd)

\* generateRandomString: rnd is what randomBytes(6) returns
generateRandomString(rnd) == slice(toHex(rnd), ivLength)

\* data as a Buffer
dataBuffer(data) == IF data.isString THEN BufferFromUtf8(data.v) ELSE data.v

\* the body of encrypt once key and IV string are settled
Encipher(data, key, ivString, drawn) ==
  LET iv == BufferFromUtf8(ivString)
      encrypted == GcmCrypt(key, iv, dataBuffer(data))
  IN [NoResult EXCEPT
        !.encrypted = encrypted, !.iv = ivString,
        !.authTag = GcmTag(key, iv, encrypted),
        !.calls = drawn \o <<"createCipheriv", "cipher.update", "cipher.final",
                             "getAuthTag">>,
        !.aeadIv = iv]

\* encrypt with the IV settled and checked before the key is looked at
encrypt_ivFirst(data, key, fixedIv, rnd) ==
  LET ivString == IF Truthy(fixedIv) THEN fixedIv.s ELSE generateRandomString(rnd)
      drawn == IF Truthy(fixedIv) THEN <<>> ELSE <<"randomBytes">>
  IN IF Truthy(fixedIv) /\ Len(fixedIv.s) # ivLength
     THEN Throw(IvLengthError, drawn, <<>>)
     ELSE IF Len(key) # keyLength THEN Throw(KeyLengthError, drawn, <<>>)
     ELSE Encipher(data, key, ivString, drawn)

\* encrypt that checks fixedIv but then draws the IV all the same
encrypt_ignoresFixedIv(data, key, fixedIv, rnd) ==
  IF Len(key) # keyLength THEN Throw(KeyLengthError, <<>>, <<>>)
  ELSE IF Truthy(fixedIv) /\ Len(fixedIv.s) # ivLength
  THEN Throw(IvLengthError, <<>>, <<>>)
  ELSE Encipher(data, key, generateRandomString(rnd), <<"randomBytes">>)

encrypt(data, key, fixedIv, rnd) ==
  IF Len(key) # keyLength THEN Throw(KeyLengthError, <<>>, <<>>)
  ELSE
    LET ivString == IF Truthy(fixedIv) THEN fixedIv.s ELSE generateRandomString(rnd)
        drawn == IF Truthy(fixedIv) THEN <<>> ELSE <<"randomBytes">>
    IN IF Truthy(fixedIv) /\ Len(fixedIv.s) # ivLength
       THEN Throw(IvLengthError, drawn, <<>>)
       ELSE
         LET iv == BufferFromUtf8(ivString)
         IN IF ~IvAccepted(iv)
            THEN Throw(ERR_CRYPTO_INVALID_IV, drawn \o <<"createCipheriv">>, iv)
            ELSE
              LET encrypted == GcmCrypt(key, iv, dataBuffer(data))
              IN [NoResult EXCEPT
                    !.encrypted = encrypted,
                    !.iv = ivString,
                    !.authTag = GcmTag(key, iv, encrypted),
                    !.calls = drawn \o <<"createCipheriv", "cipher.update",
                                         "cipher.final", "getAuthTag">>,
                    !.aeadIv = iv]

\* decrypt whose catch block hands back what update() deciphered
decrypt_partial(encrypted, key, iv, authTag) ==
  IF Len(key) # keyLength THEN Throw(KeyLengthError, <<>>, <<>>)
  ELSE
    LET ivBuffer == IF iv.isString THEN BufferFromUtf8(iv.v) ELSE iv.v
    IN IF ~IvAccepted(ivBuffer)
       THEN Throw(ERR_CRYPTO_INVALID_IV, <<"createDecipheriv">>, ivBuffer)
       ELSE IF ~TagLengthAccepted(Len(authTag))
       THEN Throw(ERR_CRYPTO_INVALID_AUTH_TAG,
                  <<"createDecipheriv", "setAuthTag">>, ivBuffer)
       ELSE [NoResult EXCEPT
               !.val = GcmCrypt(key, ivBuffer, encrypted),
               !.calls = <<"createDecipheriv", "setAuthTag", "decipher.update",
                           "decipher.final">>,
               !.aeadIv = ivBuffer]

decrypt(encrypted, key, iv, authTag) ==
  IF Len(key) # keyLength THEN Throw(KeyLengthError, <<>>, <<>>)
  ELSE
    LET ivBuffer == IF iv.isString THEN BufferFromUtf8(iv.v) ELSE iv.v
    IN IF ~IvAccepted(ivBuffer)
       THEN Throw(ERR_CRYPTO_INVALID_IV, <<"createDecipheriv">>, ivBuffer)
       ELSE IF ~TagLengthAccepted(Len(authTag))
       THEN Throw(ERR_CRYPTO_INVALID_AUTH_TAG,
                  <<"createDecipheriv", "setAuthTag">>, ivBuffer)
       ELSE IF ~TagVerifies(key, ivBuffer, encrypted, authTag)
       THEN Throw(DecryptionFailedError,
                  <<"createDecipheriv", "setAuthTag", "decipher.update",
                    "decipher.final">>, ivBuffer)
       ELSE [NoResult EXCEPT
               !.val = GcmCrypt(key, ivBuffer, encrypted),
               !.calls = <<"createDecipheriv", "setAuthTag", "decipher.update",
                           "decipher.final">>,
               !.aeadIv = ivBuffer]

encryptToBuffer(data, key, fixedIv, rnd) ==
  LET r == encrypt(data, key, fixedIv, rnd)
  IN IF r.err # NoError THEN r
     ELSE LET blob == BufferFromUtf8(r.iv) \o r.authTag \o r.encrypted
          IN [r EXCEPT !.val = blob, !.blob = blob]

decryptFromBuffer(encryptedBuffer, key) ==
  LET ivBuffer == subarray(encryptedBuffer, 0, ivLength)
      authTag == subarray(encryptedBuffer, ivLength, ivLength + authTagLength)
      encrypted == subarray(encryptedBuffer, ivLength + authTagLength,
                            Len(encryptedBuffer))
  IN decrypt(encrypted, key, [isString |-> FALSE, v |-> ivBuffer], authTag)

encryptToString(data, key, fixedIv, rnd) ==
  LET r == encryptToBuffer(data, key, fixedIv, rnd)
  IN IF r.err # NoError THEN r ELSE [r EXCEPT !.val = toBase64(r.blob)]

decryptFromString(encryptedString, key) ==
  decryptFromBuffer(BufferFromBase64(encryptedString), key)

\* ------------------------------------------------------------------ callers

VARIABLES
  op,    \* the method the caller is in, "idle" between two calls
  in,    \* its arguments
  out,   \* its result
  held,  \* the envelope the caller holds from its last successful encryption
  again  \* the call has the arguments of the call that made the held envelope

vars == <<op, in, out, held, again>>

NoArgs ==
  [data |-> [isString |-> FALSE, v |-> <<>>], key |-> <<>>,
   fixedIv |-> [given |-> FALSE, s |-> <<>>],
   encrypted |-> <<>>, iv |-> [isString |-> TRUE, v |-> <<>>],
   authTag |-> <<>>, blob |-> <<>>, text |-> <<>>]

NoHeld ==
  [layer |-> "none", data |-> [isString |-> FALSE, v |-> <<>>], key |-> <<>>,
   fixedIv |-> [given |-> FALSE, s |-> <<>>],
   encrypted |-> <<>>, iv |-> <<>>, authTag |-> <<>>, blob |-> <<>>,
   text |-> <<>>]

\* keys: 32 zero bytes, 32 counting bytes, and the 8 bytes of "tooshort"
ZeroKey == [i \in 1..keyLength |-> 0]
CountKey == [i \in 1..keyLength |-> i]
ShortKey == <<116, 111, 111, 115, 104, 111, 114, 116>>
GoodKeys == {ZeroKey, CountKey}
AllKeys == GoodKeys \cup {ShortKey}

\* plaintexts: the Buffers 68, 68 ff, 68 ff 96, ... and the strings "h",
\* "h" + e-acute, ..., of every length up to MaxLen, the empty ones included
PlainBuffer(n) == [i \in 1..n |-> (104 + 151 * (i - 1)) % 256]
PlainString(n) == [i \in 1..n |-> IF i % 2 = 1 THEN 104 ELSE 233]
Datas ==
  {[isString |-> FALSE, v |-> PlainBuffer(n)] : n \in 0..MaxLen}
    \cup {[isString |-> TRUE, v |-> PlainString(n)] : n \in 0..MaxLen}

\* fixedIv: undefined, "", "abc", "abcdef", "abcdefg", and "abcde" + e-acute
Abcdef == <<97, 98, 99, 100, 101, 102>>
FixedIvs ==
  {[given |-> FALSE, s |-> <<>>]}
    \cup {[given |-> TRUE, s |-> t] :
            t \in {<<>>, SubSeq(Abcdef, 1, 3), Abcdef, Abcdef \o <<103>>,
                   SubSeq(Abcdef, 1, 5) \o <<233>>}}

\* what randomBytes returns
RandomIvBytes == {<<16, 53, 219, 0, 0, 0>>, <<255, 255, 255, 255, 255, 255>>}

FlipBit(buf, i, b) == [buf EXCEPT ![i] = XorByte(buf[i], 2 ^ b)]

BitFlips(buf) == {FlipBit(buf, i, b) : i \in 1..Len(buf), b \in 0..7}

\* the string with its last character replaced by the next one
NextString(s) == IF s = <<>> THEN s ELSE [s EXCEPT ![Len(s)] = s[Len(s)] + 1]

\* the tag cut short or lengthened with zero bytes
Resized(tag, n) == [i \in 1..n |-> IF i <= Len(tag) THEN tag[i] ELSE 0]

Hold(layer, data, key, fixedIv, r) ==
  [layer |-> layer, data |-> data, key |-> key, fixedIv |-> fixedIv,
   encrypted |-> r.encrypted, iv |-> r.iv, authTag |-> r.authTag,
   blob |-> r.blob, text |-> IF layer = "text" THEN r.val ELSE <<>>]

Init ==
  /\ op = "idle"
  /\ in = NoArgs
  /\ out = NoResult
  /\ held = NoHeld
  /\ again = FALSE

\* the caller is done with the result of a call
Return ==
  /\ op # "idle"
  /\ op' = "idle"
  /\ in' = NoArgs
  /\ out' = NoResult
  /\ again' = FALSE
  /\ UNCHANGED held

GenerateKey ==
  /\ op = "idle"
  /\ \E rnd \in GoodKeys :
       /\ op' = "generateKey"
       /\ in' = NoArgs
       /\ out' = generateKey(rnd)
       /\ UNCHANGED <<held, again>>

EncryptCall(name, data, key, fixedIv, r) ==
  /\ op = "idle"
  /\ op' = name
  /\ again' = (/\ held.layer # "none"
               /\ held.data = data /\ held.key = key /\ held.fixedIv = fixedIv)
  /\ in' = [NoArgs EXCEPT !.data = data, !.key = key, !.fixedIv = fixedIv]
  /\ out' = r
  /\ held' = IF r.err = NoError
             THEN Hold(IF name = "encrypt" THEN "raw"
                       ELSE IF name = "encryptToBuffer" THEN "buffer" ELSE "text",
                       data, key, fixedIv, r)
             ELSE held

Encrypt ==
  \E data \in Datas, key \in AllKeys, fixedIv \in FixedIvs, rnd \in RandomIvBytes :
    EncryptCall("encrypt", data, key, fixedIv, encrypt(data, key, fixedIv, rnd))

EncryptToBuffer ==
  \E data \in Datas, key \in AllKeys, fixedIv \in FixedIvs, rnd \in RandomIvBytes :
    EncryptCall("encryptToBuffer", data, key, fixedIv,
                encryptToBuffer(data, key, fixedIv, rnd))

EncryptToString ==
  \E data \in Datas, key \in AllKeys, fixedIv \in FixedIvs, rnd \in RandomIvBytes :
    EncryptCall("encryptToString", data, key, fixedIv,
                encryptToString(data, key, fixedIv, rnd))

\* the (encrypted, iv, authTag) a caller passes to decrypt: what it holds,
\* or that with one bit flipped, another tag length or another IV
DecryptArgs ==
  {<<held.encrypted, held.iv, held.authTag>>}
    \cup {<<c, held.iv, held.authTag>> : c \in BitFlips(held.encrypted)}
    \cup {<<held.encrypted, held.iv, t>> : t \in BitFlips(held.authTag)}
    \cup {<<held.encrypted, held.iv, Resized(held.authTag, n)>> :
            n \in 0..(authTagLength + MaxTagDelta)}
    \cup {<<held.encrypted, v, held.authTag>> : v \in {NextString(held.iv), <<>>}}

Decrypt ==
  /\ op = "idle"
  /\ held.layer # "none"
  /\ \E a \in DecryptArgs, key \in AllKeys :
       /\ a = <<held.encrypted, held.iv, held.authTag>> \/ key = held.key
       /\ op' = "decrypt"
       /\ in' = [NoArgs EXCEPT !.encrypted = a[1], !.key = key,
                               !.iv = [isString |-> TRUE, v |-> a[2]],
                               !.authTag = a[3]]
       /\ out' = decrypt(a[1], key, [isString |-> TRUE, v |-> a[2]], a[3])
       /\ UNCHANGED <<held, again>>

\* the blobs a caller passes to decryptFromBuffer: the one it holds, every
\* prefix of it, and it with the lowest bit of one byte flipped
Blobs ==
  {SubSeq(held.blob, 1, n) : n \in 0..Len(held.blob)}
    \cup {FlipBit(held.blob, i, 0) : i \in 1..Len(held.blob)}

DecryptFromBuffer ==
  /\ op = "idle"
  /\ held.layer \in {"buffer", "text"}
  /\ \E blob \in Blobs, key \in AllKeys :
       /\ blob = held.blob \/ key = held.key
       /\ op' = "decryptFromBuffer"
       /\ in' = [NoArgs EXCEPT !.blob = blob, !.key = key]
       /\ out' = decryptFromBuffer(blob, key)
       /\ UNCHANGED <<held, again>>

\* the text with character c put in before position i
Inserted(text, i, c) == SubSeq(text, 1, i - 1) \o <<c>> \o SubSeq(text, i, Len(text))

\* the text without its trailing '='
RECURSIVE Unpadded(_)
Unpadded(text) ==
  IF text # <<>> /\ text[Len(text)] = PadChar
  THEN Unpadded(SubSeq(text, 1, Len(text) - 1)) ELSE text

\* the texts a caller passes to decryptFromString: the one it holds, every
\* prefix of it, it without padding, and it with a '!' or a line feed put in
Texts ==
  {SubSeq(held.text, 1, n) : n \in 0..Len(held.text)}
    \cup {Unpadded(held.text)}
    \cup {Inserted(held.text, i, c) : i \in 1..(Len(held.text) + 1), c \in {33, 10}}

DecryptFromString ==
  /\ op = "idle"
  /\ held.layer = "text"
  /\ \E text \in Texts, key \in AllKeys :
       /\ text = held.text \/ key = held.key
       /\ op' = "decryptFromString"
       /\ in' = [NoArgs EXCEPT !.text = text, !.key = key]
       /\ out' = decryptFromString(text, key)
       /\ UNCHANGED <<held, again>>

Next ==
  \/ Return
  \/ GenerateKey
  \/ Encrypt
  \/ EncryptToBuffer
  \/ EncryptToString
  \/ Decrypt
  \/ DecryptFromBuffer
  \/ DecryptFromString

Spec == Init /\ [][Next]_vars

\* ------------------------------------------------------------------ properties

\* the error kinds of the specification, by what the class throws for them
InvalidKeyLength == KeyLengthError
InvalidNonceLength == IvLengthError
AuthenticationFailed == DecryptionFailedError
\* the two kinds for which the class has no throw statement
MalformedBlob == "MalformedBlob"
InvalidTextEncoding == "InvalidTextEncoding"

EncryptOps == {"encrypt", "encryptToBuffer", "encryptToString"}
DecryptOps == {"decrypt", "decryptFromBuffer", "decryptFromString"}

\* a and b differ in exactly one bit
OneBitFlip(a, b) ==
  /\ Len(a) = Len(b)
  /\ \E i \in 1..Len(b), bit \in 0..7 : a = FlipBit(b, i, bit)

\* the call hands back, unaltered and with the key it was made with, the
\* envelope held
GivesBackHeld ==
  /\ in.key = held.key
  /\ \/ /\ op = "decrypt"
        /\ in.encrypted = held.encrypted
        /\ in.iv.v = held.iv
        /\ in.authTag = held.authTag
     \/ op = "decryptFromBuffer" /\ held.layer = "buffer" /\ in.blob = held.blob
     \/ op = "decryptFromString" /\ held.layer = "text" /\ in.text = held.text

\* C1: round trip.  Whatever was encrypted without a fixed nonce, under a
\* 32-byte key, is returned exactly by the decryption of the same layer:
\* decrypt of (encrypted, iv, authTag), decryptFromBuffer of the blob,
\* decryptFromString of the text.
C1_RoundTrip ==
  (GivesBackHeld /\ ~held.fixedIv.given)
    => (out.err = NoError /\ out.val = dataBuffer(held.data))

C1_Witness ==
  /\ GivesBackHeld
  /\ op = "decryptFromString"
  /\ ~held.fixedIv.given
  /\ held.data.v # <<>>
  /\ out.err = NoError

\* C2: tamper sensitivity.  decrypt under the 32-byte key of the encryption,
\* with its nonce, fails with AuthenticationFailed and returns no byte when one
\* bit of the ciphertext or one bit of the tag is flipped.
C2_TamperFails ==
  (/\ op = "decrypt"
   /\ in.key = held.key
   /\ in.iv.v = held.iv
   /\ \/ OneBitFlip(in.encrypted, held.encrypted) /\ in.authTag = held.authTag
      \/ in.encrypted = held.encrypted /\ OneBitFlip(in.authTag, held.authTag))
    => (out.err = AuthenticationFailed /\ out.val = <<>>)

C2_Witness ==
  /\ op = "decrypt"
  /\ in.key = held.key
  /\ in.iv.v = held.iv
  /\ OneBitFlip(in.encrypted, held.encrypted)
  /\ in.authTag = held.authTag
  /\ out.err = AuthenticationFailed

\* C3: decryptFromBuffer on a blob shorter than 22 bytes fails with
\* MalformedBlob and makes no call to the crypto module (stated for 32-byte
\* keys, where no other error is due).
C3_ShortBlobIsMalformed ==
  (/\ op = "decryptFromBuffer"
   /\ Len(in.key) = keyLength
   /\ Len(in.blob) < ivLength + authTagLength)
    => (out.err = MalformedBlob /\ out.calls = <<>>)

\* C4: with a 32-byte key, every supplied fixed nonce of a length other than
\* 6, the empty one included, is rejected with InvalidNonceLength; no nonce is
\* drawn and nothing is encrypted.
C4_WrongNonceLengthRejected ==
  (/\ op \in EncryptOps
   /\ Len(in.key) = keyLength
   /\ in.fixedIv.given
   /\ Len(in.fixedIv.s) # ivLength)
    => (out.err = InvalidNonceLength /\ out.calls = <<>>)

\* C5: a key of a length other than 32 is rejected with InvalidKeyLength by
\* encrypt and decrypt, directly or through the buffer and text layers, before
\* anything else: no random byte is drawn, no nonce error is raised in its
\* place, no call to the crypto module is made, nothing is returned.
C5_KeyLengthFirst ==
  (op \in EncryptOps \cup DecryptOps /\ Len(in.key) # keyLength)
    => (/\ out.err = InvalidKeyLength
        /\ out.calls = <<>>
        /\ out.val = <<>> /\ out.encrypted = <<>> /\ out.authTag = <<>>)

C5_Witness ==
  /\ op = "encryptToString"
  /\ Len(in.key) # keyLength
  /\ in.fixedIv.given /\ Len(in.fixedIv.s) # ivLength
  /\ out.err = InvalidKeyLength

\* C6: with a 32-byte key, decryptFromString fails with InvalidTextEncoding
\* on every text that is not valid standard base64, before any slicing or
\* call to the crypto module.
C6_BadBase64Rejected ==
  (/\ op = "decryptFromString"
   /\ Len(in.key) = keyLength
   /\ ~IsValidBase64(in.text))
    => (out.err = InvalidTextEncoding /\ out.calls = <<>>)

\* C7: every blob encryptToBuffer returns is 22 + len(P) bytes long, with
\* the nonce used in bytes [0,6), the tag in [6,22) and the ciphertext in
\* [22,end), as decryptFromBuffer slices it.
C7_BlobLayout ==
  (op = "encryptToBuffer" /\ out.err = NoError)
    => (/\ Len(out.val) = ivLength + authTagLength + Len(dataBuffer(in.data))
        /\ subarray(out.val, 0, ivLength) = out.aeadIv
        /\ subarray(out.val, ivLength, ivLength + authTagLength) = out.authTag
        /\ subarray(out.val, ivLength + authTagLength, Len(out.val))
             = out.encrypted)

\* C8: whenever encrypt, directly or through a layer, reaches the cipher,
\* the nonce it hands over is exactly 6 bytes long.
C8_NonceIsSixBytes ==
  (/\ op \in EncryptOps
   /\ \E i \in 1..Len(out.calls) : out.calls[i] = "createCipheriv")
    => Len(out.aeadIv) = ivLength

\* C9: with a 32-byte key, whatever decrypt does not accept it reports as
\* AuthenticationFailed, the same error for every cause.
C9_OneFailure ==
  (op = "decrypt" /\ Len(in.key) = keyLength /\ out.err # NoError)
    => out.err = AuthenticationFailed

\* C10: determinism.  A call of encrypt, direct or through a layer, with the
\* plaintext, 32-byte key and 6-character fixed nonce of the earlier call
\* that made the held envelope returns the ciphertext, tag and nonce of that
\* call, and the nonce is the fixed one; calls made in between change nothing.
C10_Determinism ==
  [][(/\ again'
      /\ op' \in EncryptOps
      /\ in'.fixedIv.given
      /\ Len(in'.fixedIv.s) = ivLength)
       => (/\ out'.err = NoError
           /\ out'.encrypted = held.encrypted
           /\ out'.authTag = held.authTag
           /\ out'.iv = held.iv
           /\ out'.iv = in'.fixedIv.s)]_vars

C10_Witness ==
  /\ again
  /\ op = "encrypt"
  /\ in.fixedIv.given
  /\ Len(in.fixedIv.s) = ivLength
  /\ in.data.v # <<>>
  /\ out.err = NoError

====
